---------------------------- MODULE Spec2Model ----------------------------
(***************************************************************************)
(* Model of Backend/app.py: the GET /weather pipeline                     *)
(*   weather -> convert_cityname_to_coordinate -> weather_info -> formatter*)
(*                                                                         *)
(* JSON / Python values are tagged records:                                *)
(*   [t |-> "null"]               None / JSON null                         *)
(*   [t |-> "num", v |-> n]       a number, n in hundredths (28315=283.15) *)
(*   [t |-> "str", v |-> s]       a string                                 *)
(*   [t |-> "arr", v |-> seq]     a list                                   *)
(*   [t |-> "obj", v |-> f]       a dict, f a function on its present keys *)
(*   [t |-> "raise", ...]         an exception propagating out of an       *)
(*                                expression (type, msg = parts of str(e)) *)
(* Text built by f-strings is a sequence of its parts.                     *)
(***************************************************************************)
EXTENDS Integers, Sequences, FiniteSets, TLC

VARIABLES
    geo_api_key,      \* module global, app.py:12
    weather_apikey,   \* module global, app.py:13
    pc,               \* per request: position of the handler `weather`
    city,             \* per request: the query parameter `city`
    coord,            \* per request: the locals lat, lon (app.py:145)
    payload,          \* per request: the local payload (app.py:148)
    response,         \* per request: the HTTP response sent to the client
    calls,            \* per request: the pipeline functions the handler invoked, with arguments
    geoReply,         \* per request: what the geocoding provider answered
    wxReply           \* per request: what the weather provider answered

vars == <<geo_api_key, weather_apikey, pc, city, coord, payload, response,
          calls, geoReply, wxReply>>

\* Number of /weather requests the server handles (possibly concurrently).
NumRequests == 2

Requests == 1..NumRequests

----------------------------------------------------------------------------
\* Python / JSON values

None == [t |-> "null"]
Num(n) == [t |-> "num", v |-> n]
Str(s) == [t |-> "str", v |-> s]
Arr(s) == [t |-> "arr", v |-> s]
Obj(f) == [t |-> "obj", v |-> f]
Raise(type, msg) == [t |-> "raise", type |-> type, msg |-> msg]

\* {}
EmptyDict == Obj([k \in {} |-> None])

\* type(x).__name__ as it appears in Python's error messages
PyTypeName(x) ==
    CASE x.t = "null" -> "NoneType"
      [] x.t = "num"  -> "int"
      [] x.t = "str"  -> "str"
      [] x.t = "arr"  -> "list"
      [] x.t = "obj"  -> "dict"

\* x.get(key, default): dict.get on a dict; any other JSON type has no .get
get(x, key, default) ==
    IF x.t = "raise" THEN x
    ELSE IF x.t = "obj"
         THEN (IF key \in DOMAIN x.v THEN x.v[key] ELSE default)
         ELSE Raise("AttributeError",
                    <<"'", PyTypeName(x), "' object has no attribute 'get'">>)

\* x[0]
getitem0(x) ==
    IF x.t = "raise" THEN x
    ELSE CASE x.t = "arr" ->
                IF Len(x.v) = 0
                THEN Raise("IndexError", <<"list index out of range">>)
                ELSE x.v[1]
           [] x.t = "str" ->
                IF x.v = ""
                THEN Raise("IndexError", <<"string index out of range">>)
                ELSE x      \* a one-character str: still a str
           [] x.t = "obj" -> Raise("KeyError", <<"0">>)
           [] OTHER -> Raise("TypeError",
                    <<"'", PyTypeName(x), "' object is not subscriptable">>)

\* x[key] on a dict
getitem(x, key) ==
    IF x.t = "raise" THEN x
    ELSE IF x.t = "obj"
         THEN (IF key \in DOMAIN x.v THEN x.v[key]
               ELSE Raise("KeyError", <<"'", key, "'">>))
         ELSE Raise("TypeError",
                    <<"'", PyTypeName(x), "' object is not subscriptable">>)

\* bool(x) is False
falsy(x) ==
    \/ x.t = "null"
    \/ x.t = "num" /\ x.v = 0
    \/ x.t = "str" /\ x.v = ""
    \/ x.t = "arr" /\ Len(x.v) = 0
    \/ x.t = "obj" /\ DOMAIN x.v = {}

\* The first exception raised when the expressions of es are evaluated in order
Raised(es) == {i \in 1..Len(es) : es[i].t = "raise"}
FirstRaise(es) == es[CHOOSE i \in Raised(es) : \A j \in Raised(es) : i <= j]

----------------------------------------------------------------------------
\* Helper function (app.py:29-30)

\* The double nearest to 273.15 is 273.15 - 2.3e-14, so value - 273.15 lies a
\* hair ABOVE the decimal difference and a decimal tie (difference ending in 5
\* hundredths) rounds up, e.g. round(0 - 273.15, 1) = -273.1.  Exact for every
\* reading h (hundredths of a kelvin, 0 <= h < 80000) with h % 10 # 0 or
\* h % 50 = 0, which is where KelvinReadings are drawn from.
Kelvin27315 == 27315

\* variant: the difference is returned without rounding to one decimal
convert_kelvin_unrounded(value) == value - Kelvin27315

convert_kelvin_to_celsius(value) == 10 * ((value - Kelvin27315 + 5) \div 10)


----------------------------------------------------------------------------
\* Results of a Python call: a returned value or a raised exception

Return(v) == [t |-> "return", value |-> v]
HTTPException(status_code, detail) ==
    [t |-> "raise", type |-> "HTTPException",
     status_code |-> status_code, detail |-> detail]

\* What a provider can answer to one requests.get(url, timeout=5):
\* a transport-level failure, a body that is not JSON, or a JSON body.
\* response.json() raises requests' JSONDecodeError (a RequestException) from
\* requests 2.27 on and a plain ValueError subclass before; the repository pins
\* no version, so both are possible.
TransportFailures == {"Timeout", "ConnectionError", "HTTPError"}
RequestExceptions == TransportFailures \cup {"RequestsJSONDecodeError"}
FailureKinds == RequestExceptions \cup {"JSONDecodeError"}

Failed(kind) == [kind |-> kind, body |-> None]
Answered(body) == [kind |-> "ok", body |-> body]
NoReply == [kind |-> "none", body |-> None]

GeocodingHost == "api.geoapify.com"
WeatherHost == "api.openweathermap.org"

\* str(e) of the exception requests raises: it names the failure and the URL
requests_error(kind, host) == Raise(kind, <<kind, " for url: https://", host>>)

----------------------------------------------------------------------------
\* Geocoding API (app.py:33-57)

\* variant: the try body without the emptiness check of app.py:42-43
geocode_try_unchecked(cityName, reply) ==
    IF reply.kind # "ok" THEN requests_error(reply.kind, GeocodingHost)
    ELSE LET first == getitem0(getitem(reply.body, "results"))
             lon == getitem(first, "lon")
             lat == getitem(first, "lat")
         IN  IF lon.t = "raise" THEN lon
             ELSE IF lat.t = "raise" THEN lat
             ELSE Return(<<lat, lon>>)

\* the try body, app.py:36-48
geocode_try(cityName, reply) ==
    IF reply.kind # "ok" THEN requests_error(reply.kind, GeocodingHost)
    ELSE LET data == reply.body
             results == get(data, "results", None)
             first == getitem0(results)
             lon == getitem(first, "lon")
             lat == getitem(first, "lat")
         IN  IF results.t = "raise" THEN results
             ELSE IF falsy(results)
             THEN Raise("ValueError",
                        <<"City '", cityName, "' not found in geocoding results">>)
             ELSE IF results.t = "num"
             THEN Raise("TypeError", <<"object of type 'int' has no len()">>)
             ELSE IF lon.t = "raise" THEN lon
             ELSE IF lat.t = "raise" THEN lat
             ELSE Return(<<lat, lon>>)

\* variant: an unknown city is answered with 404
geocode_except_not_found_404(e) ==
    IF e.type \in RequestExceptions
    THEN HTTPException(500, <<"Geocoding API error: ">> \o e.msg
                              \o <<". Check GEOCODING_API_KEY.">>)
    ELSE IF e.type = "ValueError" THEN HTTPException(404, e.msg)
    ELSE HTTPException(500, e.msg)

\* the except clauses, app.py:49-57
geocode_except(e) ==
    IF e.type \in RequestExceptions
    THEN HTTPException(500, <<"Geocoding API error: ">> \o e.msg
                              \o <<". Check GEOCODING_API_KEY.">>)
    ELSE HTTPException(500, e.msg)

convert_cityname_to_coordinate(cityName, reply) ==
    LET r == geocode_try(cityName, reply)
    IN  IF r.t = "raise" THEN geocode_except(r) ELSE r

----------------------------------------------------------------------------
\* Weather API (app.py:59-78)

weather_info_except(e) ==
    IF e.type \in RequestExceptions
    THEN HTTPException(500, <<"Weather API error: ">> \o e.msg
                              \o <<". Check OPENWEATHER_API_KEY.">>)
    ELSE HTTPException(500, e.msg)

weather_info(lat, lon, reply) ==
    IF reply.kind # "ok"
    THEN weather_info_except(requests_error(reply.kind, WeatherHost))
    ELSE Return(reply.body)

----------------------------------------------------------------------------
\* Formatter (app.py:80-119)

\* payload.get("weather", [{}])[0], app.py:83
extract_weather(p) == getitem0(get(p, "weather", Arr(<<EmptyDict>>)))
\* payload.get("main", {}), app.py:84
extract_main(p) == get(p, "main", EmptyDict)
\* variant: payload["wind"], a required key
extract_wind_required(p) == getitem(p, "wind")
\* payload.get("wind", {}), app.py:85
extract_wind(p) == get(p, "wind", EmptyDict)

\* convert_kelvin_to_celsius(main.get(key, 0)), app.py:97-100
kelvin_field(main, key) ==
    LET k == get(main, key, Num(0))
    IN  IF k.t = "raise" THEN k
        ELSE IF k.t = "num" THEN Num(convert_kelvin_to_celsius(k.v))
        ELSE Raise("TypeError",
                   <<"unsupported operand type(s) for -: '", PyTypeName(k),
                     "' and 'float'">>)

formatter_except(e) ==
    HTTPException(500, <<"Data formatting error: ">> \o e.msg)

formatter(p) ==
    LET weather == extract_weather(p)
        main == extract_main(p)
        wind == extract_wind(p)
        name == get(p, "name", None)
        country == get(get(p, "sys", EmptyDict), "country", None)
        coordinates == get(p, "coord", None)
        label == get(weather, "main", None)
        description == get(weather, "description", None)
        icon == get(weather, "icon", None)
        current_c == kelvin_field(main, "temp")
        feels_like_c == kelvin_field(main, "feels_like")
        min_c == kelvin_field(main, "temp_min")
        max_c == kelvin_field(main, "temp_max")
        humidity == get(main, "humidity", None)
        pressure == get(main, "pressure", None)
        speed_mps == get(wind, "speed", None)
        direction_deg == get(wind, "deg", None)
        gust_mps == get(wind, "gust", None)
        visibility_m == get(p, "visibility", None)
        cloud_cover_pct == get(get(p, "clouds", EmptyDict), "all", None)
        timestamp == get(p, "dt", None)
        timezone_offset_s == get(p, "timezone", None)
        \* in evaluation order
        evaluated == <<weather, main, wind, name, country, coordinates,
                       label, description, icon,
                       current_c, feels_like_c, min_c, max_c,
                       humidity, pressure, speed_mps, direction_deg, gust_mps,
                       visibility_m, cloud_cover_pct, timestamp,
                       timezone_offset_s>>
    IN  IF Raised(evaluated) # {}
        THEN formatter_except(FirstRaise(evaluated))
        ELSE Return(
          [city |-> name,
           country |-> country,
           coordinates |-> coordinates,
           conditions |-> [label |-> label, description |-> description,
                           icon |-> icon],
           temperature |-> [current_c |-> current_c,
                            feels_like_c |-> feels_like_c,
                            min_c |-> min_c, max_c |-> max_c],
           humidity |-> humidity,
           pressure |-> pressure,
           wind |-> [speed_mps |-> speed_mps, direction_deg |-> direction_deg,
                     gust_mps |-> gust_mps],
           visibility_m |-> visibility_m,
           cloud_cover_pct |-> cloud_cover_pct,
           timestamp |-> timestamp,
           timezone_offset_s |-> timezone_offset_s,
           source |-> Str("openweathermap")])

----------------------------------------------------------------------------
\* Inputs: the cities asked for and the answers the providers may give

Cities == {"London", "Atlantis"}

Coordinate(lat, lon) == Obj([lat |-> Num(lat), lon |-> Num(lon)])
LondonCoord == Coordinate(5151, -13)
OtherCoord == Coordinate(4071, -7401)

GeocodingBodies ==
    { EmptyDict,                                         \* no "results" key
      Obj([results |-> Arr(<<>>)]),                      \* results: []
      Obj([results |-> None]),                           \* results: null
      Obj([results |-> Arr(<<LondonCoord>>)]),
      Obj([results |-> Arr(<<OtherCoord, LondonCoord>>)]),
      Obj([results |-> Arr(<<Obj([lat |-> Num(5151)])>>)]),  \* result without lon
      Arr(<<>>) }                                        \* body is not a dict

GeocodingReplies ==
    {Failed(k) : k \in FailureKinds} \cup {Answered(b) : b \in GeocodingBodies}

\* Kelvin readings, in hundredths
KelvinReadings == {0, 27315, 30000, 30025}

ConditionsFull ==
    Obj([main |-> Str("Clouds"), description |-> Str("overcast clouds"),
         icon |-> Str("04d")])
ConditionsPartial == Obj([main |-> Str("Rain")])

MainFull ==
    Obj([temp |-> Num(28315), feels_like |-> Num(28200),
         temp_min |-> Num(28100), temp_max |-> Num(28500),
         humidity |-> Num(7000), pressure |-> Num(101200)])

\* the optional sub-objects of a payload, each absent or one of these values
Absent == [t |-> "absent"]
WeatherOptions ==
    { Absent, Arr(<<>>), Arr(<<ConditionsFull>>), Arr(<<EmptyDict>>),
      Arr(<<ConditionsPartial, ConditionsFull>>), None, EmptyDict }
MainOptions ==
    { Absent, EmptyDict, MainFull, None }
      \cup { Obj([temp |-> Num(k)]) : k \in KelvinReadings }
      \cup { Obj([temp |-> Num(30000), feels_like |-> None]),
             Obj([temp |-> Str("warm")]) }
WindOptions ==
    { Absent, EmptyDict, None,
      Obj([speed |-> Num(310), deg |-> Num(20000)]),
      Obj([speed |-> Num(310), deg |-> Num(20000), gust |-> Num(520)]) }
SysOptions == { Absent, None, Obj([country |-> Str("GB")]) }
CloudsOptions == { Absent, None, Obj([all |-> Num(9000)]) }
ScalarOptions ==
    { [k \in {} |-> None],
      [name |-> Str("London"), coord |-> LondonCoord,
       visibility |-> Num(1000000), dt |-> Num(1700000000),
       timezone |-> Num(0)] }

\* the dict with the given scalars and the sub-objects that are not Absent
MakePayload(scalars, w, m, wi, sy, cl) ==
    LET opt == [weather |-> w, main |-> m, wind |-> wi, sys |-> sy, clouds |-> cl]
        present == {k \in DOMAIN opt : opt[k].t # "absent"}
    IN  Obj([k \in present \cup DOMAIN scalars |->
                IF k \in present THEN opt[k] ELSE scalars[k]])

\* Every shape of payload the formatter is examined on
AllPayloads ==
    { MakePayload(sc, w, m, wi, sy, cl) :
        sc \in ScalarOptions, w \in WeatherOptions, m \in MainOptions,
        wi \in WindOptions, sy \in SysOptions, cl \in CloudsOptions }
    \cup { None, Arr(<<>>) }

\* The payloads used when several requests are interleaved
FullScalars ==
    [name |-> Str("London"), coord |-> LondonCoord,
     visibility |-> Num(1000000), dt |-> Num(1700000000), timezone |-> Num(0)]
NoScalars == [k \in {} |-> None]
PipelinePayloads ==
    { MakePayload(FullScalars, Arr(<<ConditionsFull>>), MainFull,
                  Obj([speed |-> Num(310), deg |-> Num(20000)]),
                  Obj([country |-> Str("GB")]), Obj([all |-> Num(9000)])),
      MakePayload(NoScalars, Absent, Absent, Absent, Absent, Absent),
      MakePayload(FullScalars, Arr(<<>>), MainFull, Absent, Absent, Absent),
      MakePayload(NoScalars, Absent, None, Absent, Absent, Absent) }

WeatherReplies(payloads) ==
    {Failed(k) : k \in FailureKinds} \cup {Answered(b) : b \in payloads}

----------------------------------------------------------------------------
\* The handler of GET /weather (app.py:136-166)

NoCoord == <<>>
NoResponse == [status |-> 0, detail |-> <<>>, body |-> None]

\* FastAPI's rendering of a raised HTTPException: status and {"detail": ...}
ErrorResponse(e) == [status |-> e.status_code, detail |-> e.detail, body |-> None]
\* FastAPI's rendering of the returned dict
OkResponse(body) == [status |-> 200, detail |-> <<>>, body |-> body]

\* variant: no `except HTTPException: raise`, every exception is re-wrapped
weather_except_rewrap(e) ==
    HTTPException(500, <<"Unexpected error: ">>
                         \o (IF e.type = "HTTPException" THEN e.detail ELSE e.msg))

\* except HTTPException: raise / except Exception: ..., app.py:158-166
weather_except(e) ==
    IF e.type = "HTTPException" THEN e
    ELSE HTTPException(500, <<"Unexpected error: ">> \o e.msg)

\* variant: lat, lon kept in module globals shared by every request
bind_lat_lon_global(r, value) == [q \in Requests |-> value]

\* lat, lon = ..., app.py:145: locals of this request's handler
bind_lat_lon(r, value) == [coord EXCEPT ![r] = value]

\* variant: the arguments swapped
weather_info_args_swapped(latlon) == <<latlon[2], latlon[1]>>

\* weather_info(lat, lon), app.py:148
weather_info_args(latlon) == <<latlon[1], latlon[2]>>

\* variant: the formatted result is returned as the formatter made it
attach_input_city_skipped(formatted_data, cityName) == formatted_data

\* formatted_data['input_city'] = city, app.py:152
attach_input_city(formatted_data, cityName) ==
    ("input_city" :> Str(cityName)) @@ formatted_data

Call(fn, args, key) == [fn |-> fn, args |-> args, key |-> key]

\* variant: after an error the handler starts the pipeline over, once
RetryOnError(r, e) ==
    IF Len(calls[r]) < 3
    THEN /\ calls' = [calls EXCEPT ![r] =
                Append(@, Call("convert_cityname_to_coordinate",
                               <<Str(city[r])>>, geo_api_key))]
         /\ pc' = [pc EXCEPT ![r] = "geocoding"]
         /\ UNCHANGED response
    ELSE /\ response' = [response EXCEPT ![r] = ErrorResponse(e)]
         /\ pc' = [pc EXCEPT ![r] = "done"]
         /\ UNCHANGED calls

\* An exception leaves the handler: the request ends with the error response
Reject(r, e) ==
    /\ response' = [response EXCEPT ![r] = ErrorResponse(weather_except(e))]
    /\ pc' = [pc EXCEPT ![r] = "done"]
    /\ UNCHANGED calls

Init ==
    /\ geo_api_key = Str("GEOCODING_API_KEY")
    /\ weather_apikey = Str("OPENWEATHER_API_KEY")
    /\ pc = [r \in Requests |-> "idle"]
    /\ city = [r \in Requests |-> ""]
    /\ coord = [r \in Requests |-> NoCoord]
    /\ payload = [r \in Requests |-> None]
    /\ response = [r \in Requests |-> NoResponse]
    /\ calls = [r \in Requests |-> <<>>]
    /\ geoReply = [r \in Requests |-> NoReply]
    /\ wxReply = [r \in Requests |-> NoReply]

\* A request arrives; the handler calls convert_cityname_to_coordinate(city),
\* which sends the geocoding request and waits (app.py:137-145, 36-38)
Receive(r, c) ==
    /\ pc[r] = "idle"
    /\ city' = [city EXCEPT ![r] = c]
    /\ calls' = [calls EXCEPT ![r] =
                   Append(@, Call("convert_cityname_to_coordinate", <<Str(c)>>,
                                  geo_api_key))]
    /\ pc' = [pc EXCEPT ![r] = "geocoding"]
    /\ UNCHANGED <<geo_api_key, weather_apikey, coord, payload, response,
                   geoReply, wxReply>>

\* The geocoding provider answers; on success the handler goes on to call
\* weather_info(lat, lon), which sends the weather request and waits
\* (app.py:38-57, 145-148, 62-64)
GeocodeReturn(r, reply) ==
    /\ pc[r] = "geocoding"
    /\ geoReply' = [geoReply EXCEPT ![r] = reply]
    /\ LET res == convert_cityname_to_coordinate(city[r], reply)
       IN  IF res.t = "return"
           THEN /\ coord' = bind_lat_lon(r, res.value)
                /\ calls' = [calls EXCEPT ![r] =
                      Append(@, Call("weather_info",
                                     weather_info_args(coord'[r]),
                                     weather_apikey))]
                /\ pc' = [pc EXCEPT ![r] = "weather"]
                /\ UNCHANGED response
           ELSE /\ Reject(r, res)
                /\ UNCHANGED coord
    /\ UNCHANGED <<geo_api_key, weather_apikey, city, payload, wxReply>>

\* The weather provider answers (app.py:64-78, 148)
WeatherReturn(r, reply) ==
    /\ pc[r] = "weather"
    /\ wxReply' = [wxReply EXCEPT ![r] = reply]
    /\ LET res == weather_info(coord[r][1], coord[r][2], reply)
       IN  IF res.t = "return"
           THEN /\ payload' = [payload EXCEPT ![r] = res.value]
                /\ pc' = [pc EXCEPT ![r] = "format"]
                /\ UNCHANGED <<response, calls>>
           ELSE /\ Reject(r, res)
                /\ UNCHANGED payload
    /\ UNCHANGED <<geo_api_key, weather_apikey, city, coord, geoReply>>

\* The handler formats the payload and returns (app.py:150-156)
Format(r) ==
    /\ pc[r] = "format"
    /\ LET res == formatter(payload[r])
       IN  IF res.t = "return"
           THEN /\ response' = [response EXCEPT ![r] =
                       OkResponse(attach_input_city(res.value, city[r]))]
                /\ pc' = [pc EXCEPT ![r] = "done"]
                /\ calls' = [calls EXCEPT ![r] =
                       Append(@, Call("formatter", <<payload[r]>>, None))]
           ELSE /\ response' = [response EXCEPT ![r] =
                       ErrorResponse(weather_except(res))]
                /\ pc' = [pc EXCEPT ![r] = "done"]
                /\ calls' = [calls EXCEPT ![r] =
                       Append(@, Call("formatter", <<payload[r]>>, None))]
    /\ UNCHANGED <<geo_api_key, weather_apikey, city, coord, payload,
                   geoReply, wxReply>>

Next ==
    \/ \E r \in Requests, c \in Cities : Receive(r, c)
    \/ \E r \in Requests, reply \in GeocodingReplies : GeocodeReturn(r, reply)
    \/ \E r \in Requests, reply \in WeatherReplies(PipelinePayloads) :
          WeatherReturn(r, reply)
    \/ \E r \in Requests : Format(r)

Spec == Init /\ [][Next]_vars

\* One request at a time, over every shape of payload
FormatterNext ==
    \/ Receive(1, "London")
    \/ \E reply \in GeocodingReplies : GeocodeReturn(1, reply)
    \/ \E reply \in WeatherReplies(AllPayloads) : WeatherReturn(1, reply)
    \/ Format(1)

FormatterSpec == Init /\ [][FormatterNext]_vars

----------------------------------------------------------------------------
\* Vocabulary of the properties

Has(x, key) == x.t = "obj" /\ key \in DOMAIN x.v
Range(q) == {q[i] : i \in 1..Len(q)}
FnCount(r, fn) == Cardinality({i \in 1..Len(calls[r]) : calls[r][i].fn = fn})
FnNames(r) == [i \in 1..Len(calls[r]) |-> calls[r][i].fn]
Stages == <<"convert_cityname_to_coordinate", "weather_info", "formatter">>

GeocodingMentions ==
    {"Geocoding API error: ", ". Check GEOCODING_API_KEY.", GeocodingHost}
WeatherMentions ==
    {"Weather API error: ", ". Check OPENWEATHER_API_KEY.", WeatherHost}

\* The geocoding provider answered with a dict whose result set is empty or absent
NoResults(reply) ==
    /\ reply.kind = "ok"
    /\ reply.body.t = "obj"
    /\ \/ "results" \notin DOMAIN reply.body.v
       \/ reply.body.v.results = None
       \/ reply.body.v.results = Arr(<<>>)

\* The geocoding provider answered with a first result carrying lat and lon
GeocodingSucceeded(reply) ==
    /\ reply.kind = "ok"
    /\ Has(reply.body, "results")
    /\ reply.body.v.results.t = "arr"
    /\ Len(reply.body.v.results.v) > 0
    /\ Has(reply.body.v.results.v[1], "lat")
    /\ Has(reply.body.v.results.v[1], "lon")

\* A sub-object of the payload is absent or a dict
AbsentOrDict(p, key) == key \notin DOMAIN p.v \/ p.v[key].t = "obj"

TempKeys == {"temp", "feels_like", "temp_min", "temp_max"}

\* Nothing PRESENT in the payload is malformed, the weather array aside
WellFormedBesidesWeather(p) ==
    /\ p.t = "obj"
    /\ \A key \in {"main", "wind", "sys", "clouds"} : AbsentOrDict(p, key)
    /\ "main" \in DOMAIN p.v =>
          \A k \in TempKeys : k \in DOMAIN p.v.main.v => p.v.main.v[k].t = "num"

\* Nothing PRESENT in the payload is malformed: every failure left could only
\* come from something being absent
WellFormed(p) ==
    /\ WellFormedBesidesWeather(p)
    /\ "weather" \in DOMAIN p.v =>
          /\ p.v.weather.t = "arr"
          /\ Len(p.v.weather.v) > 0
          /\ p.v.weather.v[1].t = "obj"

NullConditions == [label |-> None, description |-> None, icon |-> None]
NullWind == [speed_mps |-> None, direction_deg |-> None, gust_mps |-> None]

FormattedKeys ==
    {"city", "country", "coordinates", "conditions", "temperature", "humidity",
     "pressure", "wind", "visibility_m", "cloud_cover_pct", "timestamp",
     "timezone_offset_s", "source"}

Fulfilled(r) == pc[r] = "done" /\ response[r].status = 200
Rejected(r) == pc[r] = "done" /\ response[r].status # 200

----------------------------------------------------------------------------
\* C1: whatever stage of a finished request failed, the response is HTTP 500
\* with a non-empty detail; a finished request never has another status than
\* 200 or 500, and a failed provider call never ends in 200.
C1_EveryFailureIs500 ==
    \A r \in Requests : pc[r] = "done" =>
        /\ response[r].status \in {200, 500}
        /\ response[r].status # 200 =>
              response[r].status = 500 /\ Len(response[r].detail) > 0
        /\ ( \/ geoReply[r].kind \in FailureKinds
             \/ NoResults(geoReply[r])
             \/ wxReply[r].kind \in FailureKinds ) => response[r].status = 500

C1_Witness ==
    \E r \in Requests :
        /\ pc[r] = "done" /\ wxReply[r].kind = "Timeout"
        /\ response[r].status = 500
        /\ \E q \in Requests : pc[q] = "done" /\ NoResults(geoReply[q])

\* C2: the stages run in the order geocoding, weather, format; weather_info is
\* called only after geocoding succeeded and with the lat and lon of the first
\* geocoding result; formatter only after the weather call succeeded, with the
\* payload it returned; after a failed stage no later stage is called.
C2_StagesInOrder ==
    \A r \in Requests :
        /\ Len(calls[r]) <= 3
        /\ FnNames(r) = SubSeq(Stages, 1, Len(calls[r]))
        /\ Len(calls[r]) >= 2 =>
              /\ GeocodingSucceeded(geoReply[r])
              /\ calls[r][2].args = <<geoReply[r].body.v.results.v[1].v.lat,
                                      geoReply[r].body.v.results.v[1].v.lon>>
        /\ Len(calls[r]) >= 3 =>
              /\ wxReply[r].kind = "ok"
              /\ calls[r][3].args = <<wxReply[r].body>>
        /\ (pc[r] = "done" /\ ~GeocodingSucceeded(geoReply[r])) => Len(calls[r]) = 1
        /\ (pc[r] = "done" /\ GeocodingSucceeded(geoReply[r])
              /\ wxReply[r].kind # "ok") => Len(calls[r]) = 2

C2_Witness ==
    \E r \in Requests :
        /\ Fulfilled(r) /\ Len(calls[r]) = 3
        /\ Len(geoReply[r].body.v.results.v) = 2
        /\ \E q \in Requests : pc[q] = "done" /\ Len(calls[q]) = 2

\* C3: when the geocoding provider answers with an empty or absent result set
\* the request ends with HTTP 500 (not 404), the detail is the not-found
\* message naming the requested city, and weather_info is never called.
C3_NoResultsIs500NamingCity ==
    \A r \in Requests : NoResults(geoReply[r]) =>
        /\ pc[r] = "done"
        /\ response[r].status = 500
        /\ response[r].detail =
              <<"City '", city[r], "' not found in geocoding results">>
        /\ FnCount(r, "weather_info") = 0

C3_Witness ==
    \E r \in Requests :
        /\ pc[r] = "done" /\ city[r] = "Atlantis"
        /\ geoReply[r] = Answered(Obj([results |-> Arr(<<>>)]))
        /\ \E q \in Requests : pc[q] = "done" /\ geoReply[q] = Answered(EmptyDict)

\* C4: a transport failure of the geocoding call ends in a 500 whose detail
\* names the geocoding provider and nothing of the weather provider, and
\* symmetrically for the weather call; the detail is the one the stage raised,
\* not re-wrapped as an unexpected error.
C4_ErrorNamesItsProvider ==
    \A r \in Requests : pc[r] = "done" =>
        /\ geoReply[r].kind \in TransportFailures =>
              /\ response[r].status = 500
              /\ response[r].detail[1] = "Geocoding API error: "
              /\ Range(response[r].detail) \cap WeatherMentions = {}
              /\ response[r].detail =
                    <<"Geocoding API error: ", geoReply[r].kind,
                      " for url: https://", GeocodingHost,
                      ". Check GEOCODING_API_KEY.">>
        /\ wxReply[r].kind \in TransportFailures =>
              /\ response[r].status = 500
              /\ response[r].detail[1] = "Weather API error: "
              /\ Range(response[r].detail) \cap GeocodingMentions = {}
              /\ response[r].detail =
                    <<"Weather API error: ", wxReply[r].kind,
                      " for url: https://", WeatherHost,
                      ". Check OPENWEATHER_API_KEY.">>

C4_Witness ==
    \E r, q \in Requests :
        /\ pc[r] = "done" /\ geoReply[r].kind = "Timeout"
        /\ pc[q] = "done" /\ wxReply[q].kind = "HTTPError"

\* C5: a payload whose "weather" key is present with an empty array (and with
\* nothing else malformed) is formatted successfully, with all three
\* conditions fields null.
C5_EmptyWeatherArrayGivesNullConditions ==
    \A r \in Requests :
        ( /\ pc[r] = "done"
          /\ wxReply[r].kind = "ok"
          /\ WellFormedBesidesWeather(wxReply[r].body)
          /\ Has(wxReply[r].body, "weather")
          /\ wxReply[r].body.v.weather = Arr(<<>>) ) =>
        /\ response[r].status = 200
        /\ response[r].body.conditions = NullConditions

\* C6: a payload in which every optional field or sub-object is either absent
\* or well formed is formatted successfully, and every non-temperature output
\* whose source is absent is null; without "wind" the wind block is all null.
C6_AbsentSourcesGiveNull ==
    \A r \in Requests :
        (pc[r] = "done" /\ wxReply[r].kind = "ok" /\ WellFormed(wxReply[r].body)) =>
        LET p == wxReply[r].body.v
            out == response[r].body
            main == IF "main" \in DOMAIN p THEN p.main.v ELSE [k \in {} |-> None]
            wind == IF "wind" \in DOMAIN p THEN p.wind.v ELSE [k \in {} |-> None]
        IN  /\ response[r].status = 200
            /\ "wind" \notin DOMAIN p => out.wind = NullWind
            /\ "weather" \notin DOMAIN p => out.conditions = NullConditions
            /\ "sys" \notin DOMAIN p => out.country = None
            /\ "clouds" \notin DOMAIN p => out.cloud_cover_pct = None
            /\ "humidity" \notin DOMAIN main => out.humidity = None
            /\ "pressure" \notin DOMAIN main => out.pressure = None
            /\ "speed" \notin DOMAIN wind => out.wind.speed_mps = None
            /\ "deg" \notin DOMAIN wind => out.wind.direction_deg = None
            /\ "gust" \notin DOMAIN wind => out.wind.gust_mps = None
            /\ "name" \notin DOMAIN p => out.city = None
            /\ "coord" \notin DOMAIN p => out.coordinates = None
            /\ "visibility" \notin DOMAIN p => out.visibility_m = None
            /\ "dt" \notin DOMAIN p => out.timestamp = None
            /\ "timezone" \notin DOMAIN p => out.timezone_offset_s = None

C6_Witness ==
    \E r \in Requests :
        /\ Fulfilled(r)
        /\ DOMAIN wxReply[r].body.v = {"main"}
        /\ response[r].body.wind = NullWind

\* C7: in every formatted result the four temperatures are numbers, never
\* null: the kelvin reading minus 273.15 rounded to one decimal (the nearest
\* tenth; 273.15 K is 0.0, 300 K is 26.9), and -273.1 when the reading is
\* absent from "main".
C7_TemperaturesAreNumbers ==
    \A r \in Requests : Fulfilled(r) =>
        LET p == wxReply[r].body.v
            main == IF "main" \in DOMAIN p THEN p.main.v ELSE [k \in {} |-> None]
            out == response[r].body.temperature
            pairs == { <<"temp", out.current_c>>, <<"feels_like", out.feels_like_c>>,
                       <<"temp_min", out.min_c>>, <<"temp_max", out.max_c>> }
        IN  \A pr \in pairs :
              /\ pr[2].t = "num"
              /\ pr[1] \notin DOMAIN main => pr[2].v = -27310
              /\ pr[1] \in DOMAIN main =>
                    LET h == main[pr[1]].v
                        c == pr[2].v
                    IN  /\ c % 10 = 0
                        /\ c - (h - 27315) \in -5..5
                        /\ h = 0 => c = -27310
                        /\ h = 27315 => c = 0
                        /\ h = 30000 => c = 2690
                        /\ h = 28315 => c = 1000

C7_Witness ==
    \E r \in Requests :
        /\ Fulfilled(r)
        /\ Has(wxReply[r].body, "main")
        /\ DOMAIN wxReply[r].body.v.main.v = {"temp"}
        /\ wxReply[r].body.v.main.v.temp = Num(30000)
        /\ response[r].body.temperature.current_c = Num(2690)
        /\ response[r].body.temperature.min_c = Num(-27310)

\* C8: within one request each provider is called at most once, however the
\* call ends; and every finished request made its own geocoding call, every
\* fulfilled request its own weather call and its own formatting: nothing is
\* taken over from another request.
C8_NoRetryNoReuse ==
    \A r \in Requests :
        /\ FnCount(r, "convert_cityname_to_coordinate") <= 1
        /\ FnCount(r, "weather_info") <= 1
        /\ FnCount(r, "formatter") <= 1
        /\ pc[r] = "done" => FnCount(r, "convert_cityname_to_coordinate") = 1
        /\ Fulfilled(r) =>
              /\ FnCount(r, "weather_info") = 1
              /\ FnCount(r, "formatter") = 1
              /\ calls[r][1].args = <<Str(city[r])>>

C8_Witness ==
    \E r, q \in Requests :
        /\ r # q /\ city[r] = city[q]
        /\ Fulfilled(r)
        /\ pc[q] = "done" /\ wxReply[q].kind = "ConnectionError"

\* C9: a finished request is FULFILLED exactly when geocoding, the weather
\* call and formatting all succeeded, and REJECTED otherwise; a fulfilled
\* response is the complete formatted result plus input_city = the requested
\* city, a rejected one carries no formatted result at all.
C9_FulfilledOrRejected ==
    \A r \in Requests : pc[r] = "done" =>
        /\ Fulfilled(r) <=>
              /\ GeocodingSucceeded(geoReply[r])
              /\ wxReply[r].kind = "ok"
              /\ WellFormed(wxReply[r].body)
        /\ Fulfilled(r) =>
              /\ DOMAIN response[r].body = FormattedKeys \cup {"input_city"}
              /\ response[r].body.input_city = Str(city[r])
              /\ response[r].body.source = Str("openweathermap")
              /\ response[r].detail = <<>>
        /\ Rejected(r) => response[r].body = None

C9_Witness ==
    \E r \in Requests :
        /\ Fulfilled(r)
        /\ city[r] = "London"
        /\ response[r].body.city = Str("London")
        /\ response[r].body.temperature.current_c = Num(1000)

\* C10: under any interleaving no request changes what another request sees:
\* the API keys never change, a step of one request's handler leaves every
\* other request's locals, calls and response untouched, and two finished
\* requests with the same city and the same provider answers have the same
\* response.
Local(r) == <<pc[r], city[r], coord[r], payload[r], response[r], calls[r],
              geoReply[r], wxReply[r]>>

C10_RequestsAreIsolated ==
    /\ [][ /\ geo_api_key' = geo_api_key
           /\ weather_apikey' = weather_apikey
           /\ \A r, q \in Requests :
                 (r # q /\ Local(r)' # Local(r)) => Local(q)' = Local(q) ]_vars
    /\ [](\A r, q \in Requests :
            ( /\ pc[r] = "done" /\ pc[q] = "done"
              /\ city[r] = city[q]
              /\ geoReply[r] = geoReply[q]
              /\ wxReply[r] = wxReply[q] ) => response[r] = response[q])

C10_Witness ==
    \E r, q \in Requests :
        /\ pc[r] = "format" /\ pc[q] = "weather"
        /\ city[r] # city[q]
        /\ coord[r] # coord[q]

=============================================================================
